---- MODULE Spec2Model ----
(***************************************************************************)
(* examples/isometry.rs: the benchmark main() as a state machine.          *)
(*                                                                         *)
(* main() is a single thread of control; each statement of the outer loop  *)
(* and of the three timed blocks is one action.  Floating-point values are *)
(* modelled as exact rationals (integer tuples with a positive common      *)
(* denominator, reduced by their gcd), so that the geometric identities    *)
(* are the exact ones.  SystemTime::now() is the wall clock: it is not     *)
(* monotonic, so a reading is any value of 0..MaxClock.                    *)
(***************************************************************************)
EXTENDS Integers, Sequences, FiniteSets, TLC

(* ---------------------------------------------------------------- bounds *)

\* src: total_samples = 1000 and sub_samples = 100000; scaled down here.
total_samples == 2
sub_samples == 2
\* Wall-clock readings are drawn from 0..MaxClock.
MaxClock == 1
\* The random source's position is tracked modulo RngPeriod.
RngPeriod == 4

(* ------------------------------------------------------ exact arithmetic *)

Abs(x) == IF x < 0 THEN -x ELSE x

RECURSIVE Gcd(_, _)
Gcd(a, b) == IF b = 0 THEN Abs(a) ELSE Gcd(b, a % b)

RECURSIVE GcdSeq(_)
GcdSeq(s) == IF s = <<>> THEN 0 ELSE Gcd(s[1], GcdSeq(Tail(s)))

\* A tuple of integers read up to a positive common factor, in lowest terms.
Reduce(s) ==
  LET g == GcdSeq(s)
  IN IF g = 0 THEN s ELSE [k \in 1..Len(s) |-> s[k] \div g]

\* Rational 3-vectors are <<x, y, z, d>> = (x/d, y/d, z/d), d > 0.
Vec(x, y, z, d) == Reduce(<<x, y, z, d>>)

VAdd(a, b) ==
  Vec(a[1] * b[4] + b[1] * a[4],
      a[2] * b[4] + b[2] * a[4],
      a[3] * b[4] + b[3] * a[4],
      a[4] * b[4])

\* Rational 3x3 matrices are [m |-> 3x3 integers, d |-> d] = m/d, d > 0.
Mat3(m, d) ==
  LET r == Reduce(<<m[1][1], m[1][2], m[1][3],
                    m[2][1], m[2][2], m[2][3],
                    m[3][1], m[3][2], m[3][3], d>>)
  IN [m |-> <<<<r[1], r[2], r[3]>>, <<r[4], r[5], r[6]>>, <<r[7], r[8], r[9]>>>>,
      d |-> r[10]]

Mat3Mul(a, b) ==
  Mat3([i \in 1..3 |-> [j \in 1..3 |->
          a.m[i][1] * b.m[1][j] + a.m[i][2] * b.m[2][j] + a.m[i][3] * b.m[3][j]]],
       a.d * b.d)

Mat3Vec(a, v) ==
  Vec(a.m[1][1] * v[1] + a.m[1][2] * v[2] + a.m[1][3] * v[3],
      a.m[2][1] * v[1] + a.m[2][2] * v[2] + a.m[2][3] * v[3],
      a.m[3][1] * v[1] + a.m[3][2] * v[2] + a.m[3][3] * v[3],
      a.d * v[4])

\* Rational 4x4 matrices are 4x4 integers over a denominator d > 0.
Mat4(m, d) ==
  LET flat == [k \in 1..16 |-> m[((k - 1) \div 4) + 1][((k - 1) % 4) + 1]]
      r == Reduce(flat \o <<d>>)
  IN [m |-> [i \in 1..4 |-> [j \in 1..4 |-> r[(i - 1) * 4 + j]]], d |-> r[17]]

Mat4Mul(a, b) ==
  Mat4([i \in 1..4 |-> [j \in 1..4 |->
          a.m[i][1] * b.m[1][j] + a.m[i][2] * b.m[2][j]
          + a.m[i][3] * b.m[3][j] + a.m[i][4] * b.m[4][j]]],
       a.d * b.d)

(* ------------------------------------------- nalgebra values (as exact) *)

\* A rotation/translation parameter vector (Vector3 axisangle): the unit
\* axis is axis/norm and the angle t has cos t = cos/hyp, sin t = sin/hyp.
AxisAngle(axis, norm, c, s, h) ==
  [axis |-> axis, norm |-> norm, cos |-> c, sin |-> s, hyp |-> h]

\* Values Vector3::new(g, g, g) * g can take: every component in [0, 1).
\* Here 0.927 rad (cos 3/5, sin 4/5) about the x axis and about the y axis,
\* each with a value Translation3::new(g, g, g) can take: the draws of one
\* rigid transform.
Draws ==
  { [axisangle |-> AxisAngle(<<1, 0, 0>>, 1, 3, 4, 5), t |-> Vec(1, 0, 1, 2)],
    [axisangle |-> AxisAngle(<<0, 1, 0>>, 1, 3, 4, 5), t |-> Vec(0, 1, 1, 2)] }
\* Values Point3::new(g, g, g) can take.
Points == { Vec(0, 0, 0, 1), Vec(1, 2, 3, 4) }

Cross(a, b) ==
  <<a[2] * b[3] - a[3] * b[2], a[3] * b[1] - a[1] * b[3], a[1] * b[2] - a[2] * b[1]>>

\* UnitQuaternion::new(axisangle): (cos t/2, sin t/2 * axis), as integers
\* <<w, x, y, z>> up to a positive factor: cos t/2 : sin t/2 = 1 + cos t : sin t.
QuaternionNew(aa) ==
  Reduce(<<aa.norm * (aa.hyp + aa.cos),
           aa.sin * aa.axis[1], aa.sin * aa.axis[2], aa.sin * aa.axis[3]>>)

\* Rotation3::new(axisangle), Rodrigues: I + sin t K + (1 - cos t) K^2 with
\* K the cross-product matrix of the unit axis.
RotationNew(aa) ==
  LET a == aa.axis
      K == <<<<0, -a[3], a[2]>>, <<a[3], 0, -a[1]>>, <<-a[2], a[1], 0>>>>
      K2 == [i \in 1..3 |-> [j \in 1..3 |->
               K[i][1] * K[1][j] + K[i][2] * K[2][j] + K[i][3] * K[3][j]]]
      I3 == [i \in 1..3 |-> [j \in 1..3 |-> IF i = j THEN 1 ELSE 0]]
  IN Mat3([i \in 1..3 |-> [j \in 1..3 |->
             aa.hyp * aa.norm * aa.norm * I3[i][j]
             + aa.sin * aa.norm * K[i][j]
             + (aa.hyp - aa.cos) * K2[i][j]]],
          aa.hyp * aa.norm * aa.norm)

\* Isometry3::from_parts / IsometryMatrix3::from_parts
FromParts(t, r) == [translation |-> t, rotation |-> r]

\* UnitQuaternion * UnitQuaternion (Hamilton product)
QMul(a, b) ==
  Reduce(<<a[1] * b[1] - a[2] * b[2] - a[3] * b[3] - a[4] * b[4],
           a[1] * b[2] + a[2] * b[1] + a[3] * b[4] - a[4] * b[3],
           a[1] * b[3] - a[2] * b[4] + a[3] * b[1] + a[4] * b[2],
           a[1] * b[4] + a[2] * b[3] - a[3] * b[2] + a[4] * b[1]>>)

\* UnitQuaternion::inverse: the conjugate
QInverse(q) == <<q[1], -q[2], -q[3], -q[4]>>

\* UnitQuaternion * Vector3: v + w t + u x t with t = 2 (u x v), u the
\* imaginary part; over the squared norm for the integer quaternion.
QRotate(q, v) ==
  LET u == <<q[2], q[3], q[4]>>
      n == q[1] * q[1] + q[2] * q[2] + q[3] * q[3] + q[4] * q[4]
      t == Cross(u, v)
      ut == Cross(u, t)
  IN Vec(n * v[1] + 2 * q[1] * t[1] + 2 * ut[1],
         n * v[2] + 2 * q[1] * t[2] + 2 * ut[2],
         n * v[3] + 2 * q[1] * t[3] + 2 * ut[3],
         n * v[4])

\* Rotation3::inverse: the transpose
RInverse(r) == [m |-> [i \in 1..3 |-> [j \in 1..3 |-> r.m[j][i]]], d |-> r.d]

VNeg(v) == <<-v[1], -v[2], -v[3], v[4]>>

\* Isometry3 * Isometry3, Isometry3::inverse, Isometry3 * Point3
IsoMul(a, b) ==
  FromParts(VAdd(QRotate(a.rotation, b.translation), a.translation),
            QMul(a.rotation, b.rotation))
IsoInverse(a) ==
  FromParts(QRotate(QInverse(a.rotation), VNeg(a.translation)), QInverse(a.rotation))
IsoPoint(a, p) == VAdd(QRotate(a.rotation, p), a.translation)

\* IsometryMatrix3 * IsometryMatrix3, ::inverse, * Point3
IsomMul(a, b) ==
  FromParts(VAdd(Mat3Vec(a.rotation, b.translation), a.translation),
            Mat3Mul(a.rotation, b.rotation))
IsomInverse(a) ==
  FromParts(Mat3Vec(RInverse(a.rotation), VNeg(a.translation)), RInverse(a.rotation))
IsomPoint(a, p) == VAdd(Mat3Vec(a.rotation, p), a.translation)

\* Isometry3::to_homogeneous: the quaternion's rotation matrix in the upper
\* left block, the translation in the last column, (0, 0, 0, 1) below.
ToHomogeneous(a) ==
  LET q == a.rotation
      t == a.translation
      w == q[1]  x == q[2]  y == q[3]  z == q[4]
      n == w * w + x * x + y * y + z * z
      R == <<<<w * w + x * x - y * y - z * z, 2 * (x * y - w * z), 2 * (x * z + w * y)>>,
             <<2 * (x * y + w * z), w * w - x * x + y * y - z * z, 2 * (y * z - w * x)>>,
             <<2 * (x * z - w * y), 2 * (y * z + w * x), w * w - x * x - y * y + z * z>>>>
  IN Mat4([i \in 1..4 |-> [j \in 1..4 |->
             IF i <= 3 /\ j <= 3 THEN R[i][j] * t[4]
             ELSE IF i <= 3 THEN t[i] * n
             ELSE IF j = 4 THEN n * t[4] ELSE 0]],
          n * t[4])

\* Transform3::from_matrix_unchecked: wraps the matrix, nothing is checked.
FromMatrixUnchecked(m) == m

\* Transform3 * Transform3
TransformMul(a, b) == Mat4Mul(a, b)

\* Transform3::transform_point (TAffine): linear block * p + last column.
TransformPoint(a, p) ==
  Vec((a.m[1][1] * p[1] + a.m[1][2] * p[2] + a.m[1][3] * p[3]) + a.m[1][4] * p[4],
      (a.m[2][1] * p[1] + a.m[2][2] * p[2] + a.m[2][3] * p[3]) + a.m[2][4] * p[4],
      (a.m[3][1] * p[1] + a.m[3][2] * p[2] + a.m[3][3] * p[3]) + a.m[3][4] * p[4],
      a.d * p[4])

\* Determinant of the 3x3 matrix left of a 4x4 one without row i, column j.
Minor(m, i, j) ==
  LET rs == [k \in 1..3 |-> IF k < i THEN k ELSE k + 1]
      cs == [k \in 1..3 |-> IF k < j THEN k ELSE k + 1]
      e(r, c) == m[rs[r]][cs[c]]
  IN e(1, 1) * (e(2, 2) * e(3, 3) - e(2, 3) * e(3, 2))
     - e(1, 2) * (e(2, 1) * e(3, 3) - e(2, 3) * e(3, 1))
     + e(1, 3) * (e(2, 1) * e(3, 2) - e(2, 2) * e(3, 1))

Sign(i, j) == IF (i + j) % 2 = 0 THEN 1 ELSE -1

Det4(m) ==
  m[1][1] * Minor(m, 1, 1) - m[1][2] * Minor(m, 1, 2)
  + m[1][3] * Minor(m, 1, 3) - m[1][4] * Minor(m, 1, 4)

None == [some |-> FALSE]
Some(v) == [some |-> TRUE, value |-> v]

\* The general 4x4 inverse, adjugate over determinant (of m/d: d adj(m)/det m).
Mat4Inverse(a) ==
  LET det == Det4(a.m)
      s == IF det < 0 THEN -1 ELSE 1
  IN Mat4([i \in 1..4 |-> [j \in 1..4 |-> s * a.d * Sign(i, j) * Minor(a.m, j, i)]],
          s * det)

\* Transform3::try_inverse: what the call can return.  A singular matrix
\* gives None; the determinant test is made on the computed (floating
\* point) matrix, so None is an outcome for any argument.
TryInverse(a) ==
  IF Det4(a.m) = 0 THEN {None} ELSE {Some(Mat4Inverse(a)), None}

(* ------------------------------------------------------------ the program *)

Blocks == {"Transform", "Isometry", "IsometryMatrix"}

\* A local that is out of scope, or not yet bound.
Unset == <<>>

VARIABLES
  blk,       \* where main() is: "setup", "usability", a timed block, "report",
             \* "done" (returned, exit code 0) or "panicked"
  step,      \* the statement within a timed block
  outer,     \* outer loop counter _i
  inner,     \* inner loop counter _i of the running timed block
  rng,       \* position of the thread-local random source
  total_duration_transform,
  total_duration_isometry,
  total_duration_isometry_matrix,
  iso1, iso2, isom1, isom2, trans1, trans2,
  p,         \* the inner loop's point
  composed,  \* the inner loop's product: transform, iso or isom
  inverse,   \* the inner loop's inverse: an Option in the Transform block
  start, end,
  stdout,    \* the lines printed so far
  exit_code, \* -1 while running
  \* history of the run, read by no action
  nstart,    \* per block: start timestamps taken
  nend,      \* per block: end timestamps taken
  nadded,    \* per block: elapsed times added to the total
  elapsed,   \* per block: the sum of end - start over its completed timed blocks
  ncompinv,  \* compose-with-inverse executions in the running timed loop
  ops,       \* the operations of the current inner iteration, in order
  rng_unit,  \* the unit of work that last drew from rng
  total_unit \* per block: the outer iteration that last updated its total

totals ==
  <<total_duration_transform, total_duration_isometry, total_duration_isometry_matrix>>
transforms == <<iso1, iso2, isom1, isom2, trans1, trans2>>
locals == <<p, composed, inverse>>
stamps == <<start, end>>
output == <<stdout, exit_code>>
counts == <<nstart, nend, nadded, elapsed>>
vars ==
  <<blk, step, outer, inner, rng, totals, transforms, locals, stamps, output,
    counts, ncompinv, ops, rng_unit, total_unit>>

\* std::time::Duration::default()
DurationDefault == 0

\* rng.gen::<f64>() n times: the source moves on by n draws.
Gen(r, n) == (r + n) % RngPeriod

\* SystemTime::now(): the readings the wall clock can give.
Now == 0..MaxClock

\* A slip: start.duration_since(end).
DurationSinceSwapped(e, s) ==
  IF s >= e THEN [ok |-> TRUE, value |-> s - e] ELSE [ok |-> FALSE]

\* end.duration_since(start): Err when end is earlier than start.
DurationSince(e, s) ==
  IF e >= s THEN [ok |-> TRUE, value |-> e - s] ELSE [ok |-> FALSE]

\* A slip: total = d.
AddAssignOverwrite(total, d) == d

\* total += d
AddAssign(total, d) == total + d

\* for _i in 0..n: the loop body runs while the counter is below n.
LoopRuns(i, n) == i < n

\* The unit of work a step belongs to: its outer iteration, and within it
\* the setup or one of the three timed loops.
Unit == <<outer, IF blk \in Blocks THEN blk ELSE "setup">>

Init ==
  /\ rng = 0
  /\ total_duration_transform = DurationDefault
  /\ total_duration_isometry = DurationDefault
  /\ total_duration_isometry_matrix = DurationDefault
  /\ outer = 0
  /\ inner = 0
  /\ blk = IF LoopRuns(0, total_samples) THEN "setup" ELSE "report"
  /\ step = IF LoopRuns(0, total_samples) THEN "" ELSE "Transform"
  /\ iso1 = Unset /\ iso2 = Unset /\ isom1 = Unset /\ isom2 = Unset
  /\ trans1 = Unset /\ trans2 = Unset
  /\ p = Unset /\ composed = Unset /\ inverse = Unset
  /\ start = -1 /\ end = -1
  /\ stdout = <<>>
  /\ exit_code = -1
  /\ nstart = [b \in Blocks |-> 0]
  /\ nend = [b \in Blocks |-> 0]
  /\ nadded = [b \in Blocks |-> 0]
  /\ elapsed = [b \in Blocks |-> 0]
  /\ ncompinv = 0
  /\ ops = <<>>
  /\ rng_unit = <<-1, "setup">>
  /\ total_unit = [b \in Blocks |-> -1]

\* A slip: isom2 from t1, trans2 from iso1.
ConstructSlip(axisangle1, t1, axisangle2, t2) ==
  LET q1 == QuaternionNew(axisangle1)
      r1 == RotationNew(axisangle1)
      q2 == QuaternionNew(axisangle2)
      r2 == RotationNew(axisangle2)
      i1 == FromParts(t1, q1)
      i2 == FromParts(t2, q2)
  IN [iso1 |-> i1, iso2 |-> i2,
      isom1 |-> FromParts(t1, r1), isom2 |-> FromParts(t1, r2),
      trans1 |-> FromMatrixUnchecked(ToHomogeneous(i1)),
      trans2 |-> FromMatrixUnchecked(ToHomogeneous(i1))]

\* The six transforms of one outer iteration, from its random parameters.
Construct(axisangle1, t1, axisangle2, t2) ==
  LET q1 == QuaternionNew(axisangle1)
      r1 == RotationNew(axisangle1)
      q2 == QuaternionNew(axisangle2)
      r2 == RotationNew(axisangle2)
      i1 == FromParts(t1, q1)
      i2 == FromParts(t2, q2)
  IN [iso1 |-> i1, iso2 |-> i2,
      isom1 |-> FromParts(t1, r1), isom2 |-> FromParts(t2, r2),
      trans1 |-> FromMatrixUnchecked(ToHomogeneous(i1)),
      trans2 |-> FromMatrixUnchecked(ToHomogeneous(i2))]

\* Lines 41-65: 17 draws, the six transforms, the (unused) outer point.
Setup ==
  /\ blk = "setup"
  /\ \E d1 \in Draws, d2 \in Draws :
       LET c == Construct(d1.axisangle, d1.t, d2.axisangle, d2.t)
       IN /\ iso1' = c.iso1 /\ iso2' = c.iso2
          /\ isom1' = c.isom1 /\ isom2' = c.isom2
          /\ trans1' = c.trans1 /\ trans2' = c.trans2
  /\ rng' = Gen(rng, 17)
  /\ rng_unit' = Unit
  /\ blk' = "usability"
  /\ UNCHANGED <<step, outer, inner, totals, locals, stamps, output, counts,
                 ncompinv, ops, total_unit>>

\* Lines 83-89: iso1 * iso1.inverse() and trans1.try_inverse(), both unused.
Usability ==
  /\ blk = "usability"
  /\ \E identity \in {IsoMul(iso1, IsoInverse(iso1))}, inv \in TryInverse(trans1) :
       TRUE
  /\ blk' = "Transform"
  /\ step' = "start"
  /\ UNCHANGED <<outer, inner, rng, totals, transforms, locals, stamps, output,
                 counts, ncompinv, ops, rng_unit, total_unit>>

\* let start = SystemTime::now()  (lines 94, 107, 119)
Start(b) ==
  /\ blk = b /\ step = "start"
  /\ \E now \in Now : start' = now
  /\ inner' = 0
  /\ step' = IF LoopRuns(0, sub_samples) THEN "point" ELSE "end"
  /\ nstart' = [nstart EXCEPT ![b] = @ + 1]
  /\ ncompinv' = 0
  /\ ops' = <<>>
  /\ UNCHANGED <<blk, outer, rng, totals, transforms, locals, end, output,
                 nend, nadded, elapsed, rng_unit, total_unit>>

\* let p = Point3::new(g, g, g)  (lines 96, 109, 121)
Point(b) ==
  /\ blk = b /\ step = "point"
  /\ \E pt \in Points : p' = pt
  /\ rng' = Gen(rng, 3)
  /\ rng_unit' = Unit
  /\ step' = "compose"
  /\ ops' = <<"point">>
  /\ UNCHANGED <<blk, outer, inner, totals, transforms, composed, inverse,
                 stamps, output, counts, ncompinv, total_unit>>

\* trans1 * trans2, iso1 * iso2, isom1 * isom2  (lines 97, 110, 122)
Product(b) ==
  CASE b = "Transform" -> TransformMul(trans1, trans2)
    [] b = "Isometry" -> IsoMul(iso1, iso2)
    [] b = "IsometryMatrix" -> IsomMul(isom1, isom2)

Compose(b) ==
  /\ blk = b /\ step = "compose"
  /\ composed' = Product(b)
  /\ step' = "invert"
  /\ ops' = Append(ops, "compose")
  /\ UNCHANGED <<blk, outer, inner, rng, totals, transforms, p, inverse,
                 stamps, output, counts, ncompinv, rng_unit, total_unit>>

\* A slip: the isometries inverted through a fallible call as well.
InversesFallible(b) ==
  CASE b = "Transform" -> TryInverse(composed)
    [] b = "Isometry" -> {Some(IsoInverse(composed)), None}
    [] b = "IsometryMatrix" -> {Some(IsomInverse(composed)), None}

\* transform.try_inverse(), iso.inverse(), isom.inverse()  (lines 98, 111, 123)
Inverses(b) ==
  CASE b = "Transform" -> TryInverse(composed)
    [] b = "Isometry" -> {Some(IsoInverse(composed))}
    [] b = "IsometryMatrix" -> {Some(IsomInverse(composed))}

\* A slip: the result is used whether or not there is one.
AfterInvertUnchecked(r) == "compose_inverse"

\* if let Some(inverse) = ... : the branch taken after the inversion.
AfterInvert(r) == IF r.some THEN "compose_inverse" ELSE "transform_point"

Invert(b) ==
  /\ blk = b /\ step = "invert"
  /\ \E r \in Inverses(b) :
       /\ inverse' = r
       /\ step' = AfterInvert(r)
  /\ ops' = Append(ops, "invert")
  /\ UNCHANGED <<blk, outer, inner, rng, totals, transforms, p, composed,
                 stamps, output, counts, ncompinv, rng_unit, total_unit>>

\* let _ = black_box(composed * inverse)  (lines 99, 112, 124)
ComposeInverse(b) ==
  /\ blk = b /\ step = "compose_inverse"
  /\ \E discarded \in
        {CASE b = "Transform" -> TransformMul(composed, inverse.value)
           [] b = "Isometry" -> IsoMul(composed, inverse.value)
           [] b = "IsometryMatrix" -> IsomMul(composed, inverse.value)} : TRUE
  /\ step' = "transform_point"
  /\ ncompinv' = ncompinv + 1
  /\ ops' = Append(ops, "compose_inverse")
  /\ UNCHANGED <<blk, outer, inner, rng, totals, transforms, locals, stamps,
                 output, counts, rng_unit, total_unit>>

\* let _ = black_box(composed * p), the end of the loop body  (101, 113, 125)
TransformPointStep(b) ==
  /\ blk = b /\ step = "transform_point"
  /\ \E discarded \in
        {CASE b = "Transform" -> TransformPoint(composed, p)
           [] b = "Isometry" -> IsoPoint(composed, p)
           [] b = "IsometryMatrix" -> IsomPoint(composed, p)} : TRUE
  /\ inner' = inner + 1
  /\ step' = IF LoopRuns(inner + 1, sub_samples) THEN "point" ELSE "end"
  /\ p' = Unset /\ composed' = Unset /\ inverse' = Unset
  /\ ops' = Append(ops, "transform_point")
  /\ UNCHANGED <<blk, outer, rng, totals, transforms, stamps, output, counts,
                 ncompinv, rng_unit, total_unit>>

\* let end = SystemTime::now()  (lines 103, 115, 127)
End(b) ==
  /\ blk = b /\ step = "end"
  /\ \E now \in Now : end' = now
  /\ step' = "add"
  /\ nend' = [nend EXCEPT ![b] = @ + 1]
  /\ UNCHANGED <<blk, outer, inner, rng, totals, transforms, locals, start,
                 output, nstart, nadded, elapsed, ncompinv, ops, rng_unit,
                 total_unit>>

\* A slip: the second and third blocks in the other order.
NextBlockReordered(b) ==
  CASE b = "Transform" -> "IsometryMatrix"
    [] b = "IsometryMatrix" -> "Isometry"
    [] b = "Isometry" ->
         IF LoopRuns(outer + 1, total_samples) THEN "setup" ELSE "report"

\* The block after b, the outer loop's next iteration after the third.
NextBlock(b) ==
  CASE b = "Transform" -> "Isometry"
    [] b = "Isometry" -> "IsometryMatrix"
    [] b = "IsometryMatrix" ->
         IF LoopRuns(outer + 1, total_samples) THEN "setup" ELSE "report"

\* A slip: every block adds to total_duration_transform.
AccumulateWrong(b, d) ==
  [Transform |-> AddAssign(total_duration_transform, d),
   Isometry |-> total_duration_isometry,
   IsometryMatrix |-> total_duration_isometry_matrix]

\* The totals after total_duration_<b> += d.
Accumulate(b, d) ==
  [Transform |->
     IF b = "Transform" THEN AddAssign(total_duration_transform, d)
     ELSE total_duration_transform,
   Isometry |->
     IF b = "Isometry" THEN AddAssign(total_duration_isometry, d)
     ELSE total_duration_isometry,
   IsometryMatrix |->
     IF b = "IsometryMatrix" THEN AddAssign(total_duration_isometry_matrix, d)
     ELSE total_duration_isometry_matrix]

\* total_duration_<b> += end.duration_since(start).unwrap()  (104, 116, 128)
Add(b) ==
  /\ blk = b /\ step = "add"
  /\ LET d == DurationSince(end, start)
     IN IF d.ok
        THEN /\ total_duration_transform' = Accumulate(b, d.value).Transform
             /\ total_duration_isometry' = Accumulate(b, d.value).Isometry
             /\ total_duration_isometry_matrix' = Accumulate(b, d.value).IsometryMatrix
             /\ nadded' = [nadded EXCEPT ![b] = @ + 1]
             /\ elapsed' = [elapsed EXCEPT ![b] = @ + (end - start)]
             /\ total_unit' = [total_unit EXCEPT ![b] = outer]
             /\ blk' = NextBlock(b)
             /\ step' = IF NextBlock(b) \in Blocks THEN "start"
                        ELSE IF NextBlock(b) = "report" THEN "Transform" ELSE ""
             /\ outer' = IF b = "IsometryMatrix" THEN outer + 1 ELSE outer
             /\ start' = -1 /\ end' = -1
             /\ UNCHANGED exit_code
        ELSE \* unwrap() on Err: the thread panics, the process exits with 101
             /\ blk' = "panicked"
             /\ step' = ""
             /\ exit_code' = 101
             /\ UNCHANGED <<outer, totals, start, end, nadded, elapsed, total_unit>>
  /\ UNCHANGED <<inner, rng, transforms, locals, stdout, nstart, nend,
                 ncompinv, ops, rng_unit>>

\* Duration::as_secs_f64 and "{}": the text of a total.
AsSecs(d) == ToString(d)

Line(name, d) == name \o " took " \o AsSecs(d) \o " seconds"

\* The three println! of lines 132-143, one per step.
ReportOrder == <<"Transform", "Isometry", "IsometryMatrix">>

TotalOf(b) ==
  CASE b = "Transform" -> total_duration_transform
    [] b = "Isometry" -> total_duration_isometry
    [] b = "IsometryMatrix" -> total_duration_isometry_matrix

Println(k) ==
  /\ blk = "report" /\ step = ReportOrder[k]
  /\ stdout' = Append(stdout, Line(ReportOrder[k], TotalOf(ReportOrder[k])))
  /\ IF k < Len(ReportOrder)
     THEN /\ step' = ReportOrder[k + 1]
          /\ UNCHANGED <<blk, exit_code>>
     ELSE \* main returns
          /\ blk' = "done"
          /\ step' = ""
          /\ exit_code' = 0
  /\ UNCHANGED <<outer, inner, rng, totals, transforms, locals, stamps,
                 counts, ncompinv, ops, rng_unit, total_unit>>

Next ==
  \/ Setup
  \/ Usability
  \/ \E b \in Blocks : Start(b)
  \/ \E b \in Blocks : Point(b)
  \/ \E b \in Blocks : Compose(b)
  \/ \E b \in Blocks : Invert(b)
  \/ \E b \in Blocks : ComposeInverse(b)
  \/ \E b \in Blocks : TransformPointStep(b)
  \/ \E b \in Blocks : End(b)
  \/ \E b \in Blocks : Add(b)
  \/ \E k \in 1..3 : Println(k)

Spec == Init /\ [][Next]_vars

(* ------------------------------------------------------------- properties *)

Terminated == blk \in {"done", "panicked"}

LoopSteps == {"point", "compose", "invert", "compose_inverse", "transform_point"}

\* The three lines of the report, with the totals as they are now.
ExpectedLines ==
  [k \in 1..3 |-> Line(ReportOrder[k], TotalOf(ReportOrder[k]))]

\* What is on standard output is a prefix of the report, and it is empty
\* until every outer iteration and every timed block has completed.
StdoutWellFormed ==
  /\ Len(stdout) <= 3
  /\ stdout = SubSeq(ExpectedLines, 1, Len(stdout))
  /\ stdout # <<>> =>
       /\ outer = total_samples
       /\ blk \in {"report", "done"}
       /\ \A b \in Blocks : nadded[b] = total_samples

\* C1: every execution of main prints exactly the three lines "Transform
\* took", "Isometry took", "IsometryMatrix took", in this order, none of
\* them before all outer iterations have completed, and nothing else.
C1_ThreeLinesInEveryExecution ==
  /\ StdoutWellFormed
  /\ Terminated => stdout = ExpectedLines

\* C2: no reachable state of main is an abnormal exit: every
\* end.duration_since(start).unwrap() succeeds, whatever the two clock
\* readings, and the run ends with exit code zero.
C2_NoAbnormalExit ==
  /\ blk # "panicked"
  /\ exit_code \in {-1, 0}
  /\ Terminated => exit_code = 0

\* C3: each of the three running totals starts at zero, is never negative
\* and never decreases.
C3_TotalsNeverDecrease ==
  /\ \A b \in Blocks : TotalOf(b) = 0
  /\ [][\A b \in Blocks : TotalOf(b)' >= TotalOf(b) /\ TotalOf(b)' >= 0]_vars

C3_Witness ==
  /\ outer = 1
  /\ blk = "Transform" /\ step = "add" /\ end > start
  /\ total_duration_transform > 0

\* C4: in the Transform loop, an inversion that reports no result skips
\* the compose-with-inverse step and nothing else: no error, the point
\* transformation of the same iteration runs next and the loop goes on;
\* an inversion with a result is followed by exactly one
\* compose-with-inverse, then the point transformation.
C4_NoResultSkipsOnlyComposeInverse ==
  [][/\ (blk = "Transform" /\ step = "invert") =>
          /\ blk' = "Transform"
          /\ exit_code' = -1
          /\ ncompinv' = ncompinv
          /\ step' = IF inverse'.some THEN "compose_inverse" ELSE "transform_point"
     /\ (blk = "Transform" /\ step = "compose_inverse") =>
          /\ inverse.some
          /\ ops = <<"point", "compose", "invert">>
          /\ ncompinv' = ncompinv + 1
          /\ blk' = "Transform"
          /\ step' = "transform_point"
     /\ (blk = "Transform" /\ step = "transform_point") =>
          /\ blk' = "Transform"
          /\ exit_code' = -1
          /\ inner' = inner + 1
          /\ step' = IF inner + 1 < sub_samples THEN "point" ELSE "end"
          /\ ops' = IF inverse.some
                    THEN <<"point", "compose", "invert", "compose_inverse",
                           "transform_point">>
                    ELSE <<"point", "compose", "invert", "transform_point">>
    ]_vars

C4_Witness ==
  /\ blk = "Transform" /\ step = "point"
  /\ inner = 1
  /\ ncompinv = 0
  /\ ops = <<"point", "compose", "invert", "transform_point">>

\* C5: within every outer iteration the timed blocks run one after another,
\* Transform, Isometry, IsometryMatrix: a start timestamp is taken only
\* after the previous block's end timestamp was taken and added to its
\* total, at most one block is being timed at a time, and an inner
\* iteration runs only inside its own block's timed interval.
C5_BlocksStrictlySequential ==
  /\ \A b \in Blocks :
       /\ nadded[b] <= nend[b]
       /\ nend[b] <= nstart[b]
       /\ nstart[b] <= nadded[b] + 1
  /\ nstart["Isometry"] <= nadded["Transform"]
  /\ nstart["IsometryMatrix"] <= nadded["Isometry"]
  /\ nstart["Transform"] <= nadded["IsometryMatrix"] + 1
  /\ Cardinality({b \in Blocks : nstart[b] > nadded[b]}) <= 1
  /\ \A b \in Blocks : nstart[b] > nadded[b] => blk \in {b, "panicked"}
  /\ (blk \in Blocks /\ step \in LoopSteps) =>
       /\ nstart[blk] = nadded[blk] + 1
       /\ nend[blk] = nadded[blk]
       /\ nadded[blk] = outer

C5_Witness ==
  /\ outer = 1
  /\ blk = "IsometryMatrix" /\ step = "point" /\ inner = 1
  /\ nadded["Transform"] = 2 /\ nadded["Isometry"] = 2

\* Unit u touches what unit w wrote last, and u is a different inner timed
\* loop of the same outer iteration, or belongs to a later outer iteration.
Conflict(w, u) ==
  /\ w[1] >= 0
  /\ \/ w[1] < u[1]
     \/ w[1] = u[1] /\ w[2] \in Blocks /\ u[2] \in Blocks /\ w[2] # u[2]

\* C6 as stated: no variable written during one inner timed loop or outer
\* iteration is read or written by a different inner timed loop or a later
\* outer iteration, rng and the three accumulators included.
C6_NoSharedMutableState ==
  [][/\ rng' # rng => ~Conflict(rng_unit, Unit)
     /\ \A b \in Blocks :
          TotalOf(b)' # TotalOf(b) => ~Conflict(<<total_unit[b], b>>, Unit)
    ]_vars

\* C6 as amended: rng and the three accumulators are the state shared
\* across units of work: every draw, in the setup and in each timed loop,
\* advances the one rng, and each accumulator is updated by its own timed
\* block only, once per outer iteration.  Everything else is local: the six
\* transforms are written by the setup only and no timed loop changes them;
\* the point, the product and its inverse do not outlive their inner
\* iteration, nor the timestamps their block.
C6_SharedOnlyRngAndTotals ==
  [][/\ transforms' # transforms => blk = "setup"
     /\ \A b \in Blocks :
          TotalOf(b)' # TotalOf(b) =>
            /\ blk = b /\ step = "add"
            /\ total_unit'[b] = outer
            /\ total_unit[b] = outer - 1
     /\ blk = "setup" => rng' = Gen(rng, 17) /\ rng_unit' = <<outer, "setup">>
     /\ (blk \in Blocks /\ step = "point") =>
          rng' = Gen(rng, 3) /\ rng_unit' = <<outer, blk>>
     /\ rng' # rng => blk = "setup" \/ (blk \in Blocks /\ step = "point")
     /\ (blk \in Blocks /\ step = "transform_point") =>
          p' = Unset /\ composed' = Unset /\ inverse' = Unset
     /\ (blk \in Blocks /\ blk' # blk /\ blk' # "panicked") =>
          /\ p' = Unset /\ composed' = Unset /\ inverse' = Unset
          /\ start' = -1 /\ end' = -1
    ]_vars

C6_Witness ==
  /\ outer = 1
  /\ blk = "Isometry" /\ step = "compose"
  /\ rng_unit = <<1, "Isometry">>
  /\ total_unit["Transform"] = 1
  /\ total_duration_transform > 0

\* The points the three representations are compared on.
TestPoints == Points \cup {Vec(3, 0, 1, 4)}

SameAction(i, im, tr) ==
  \A pt \in TestPoints :
    /\ IsoPoint(i, pt) = IsomPoint(im, pt)
    /\ IsoPoint(i, pt) = TransformPoint(tr, pt)

\* C7: in every outer iteration the three representations of transform 1
\* and of transform 2 are built from the same rotation and translation and
\* act identically on every point (exactly, the values being exact here),
\* and so do the three products iso1 * iso2, isom1 * isom2, trans1 * trans2.
\* Stated where the transforms have just been built and where a timed block
\* is entered; they do not change in between.
C7_RepresentationsActIdentically ==
  (blk = "usability" \/ (blk \in Blocks /\ step = "start")) =>
    /\ iso1.translation = isom1.translation
    /\ iso2.translation = isom2.translation
    /\ trans1 = ToHomogeneous(iso1)
    /\ trans2 = ToHomogeneous(iso2)
    /\ SameAction(iso1, isom1, trans1)
    /\ SameAction(iso2, isom2, trans2)
    /\ SameAction(IsoMul(iso1, iso2), IsomMul(isom1, isom2), TransformMul(trans1, trans2))

C7_Witness ==
  /\ outer = 1
  /\ blk = "IsometryMatrix" /\ step = "start"
  /\ iso1.rotation # iso2.rotation
  /\ iso1.translation # iso2.translation
  /\ \E pt \in TestPoints :
       /\ IsomPoint(IsomMul(isom1, isom2), pt) # pt
       /\ IsomPoint(IsomMul(isom1, isom2), pt) # IsomPoint(IsomMul(isom2, isom1), pt)
       /\ IsomPoint(IsomMul(isom1, isom2), pt)
            = TransformPoint(TransformMul(trans1, trans2), pt)

\* C8: in both isometry loops every inner iteration is point, compose,
\* invert, compose-with-inverse, transform-point, in this order and
\* unconditionally: the inversion always has a result, so a completed loop
\* has executed compose-with-inverse once per inner iteration; in the
\* Transform loop the count is at most the number of inner iterations.
C8_IsometryLoopsNeverSkip ==
  LET body == <<"point", "compose", "invert", "compose_inverse", "transform_point">>
      here == IF step = "transform_point" THEN 1 ELSE 0
  IN /\ (blk \in {"Isometry", "IsometryMatrix"} /\ step # "start") =>
          /\ ncompinv = inner + here
          /\ step \in LoopSteps \ {"point"} => ops = SubSeq(body, 1, Len(ops))
          /\ step \in {"compose_inverse", "transform_point"} => inverse.some
          /\ step = "transform_point" => ops = SubSeq(body, 1, 4)
          /\ step \in {"end", "add"} => ncompinv = sub_samples /\ inner = sub_samples
     /\ (blk = "Transform" /\ step # "start") =>
          /\ ncompinv <= inner + here
          /\ step \in {"end", "add"} => ncompinv <= sub_samples /\ inner = sub_samples

C8_Witness ==
  /\ blk = "IsometryMatrix" /\ step = "add"
  /\ inner = sub_samples
  /\ ncompinv = sub_samples
  /\ ops = <<"point", "compose", "invert", "compose_inverse", "transform_point">>

\* C9: each running total is the sum of end - start over the completed
\* timed blocks of its own representation: completing a timed block adds
\* end - start to exactly one accumulator and leaves the other two alone;
\* no stopwatch runs during the parameter generation, the construction of
\* the transforms and the usability section, while the random point of an
\* inner iteration is drawn with its block's stopwatch running.
C9_TotalIsSumOfOwnBlocks ==
  /\ \A b \in Blocks : TotalOf(b) = elapsed[b]
  /\ [][/\ \A b \in Blocks : TotalOf(b)' = elapsed'[b]
        /\ \A b \in Blocks :
             (blk = b /\ step = "add" /\ blk' # "panicked") =>
               /\ TotalOf(b)' = TotalOf(b) + (end - start)
               /\ \A c \in Blocks \ {b} : TotalOf(c)' = TotalOf(c)
        /\ ~(blk \in Blocks /\ step = "add") =>
             \A b \in Blocks : TotalOf(b)' = TotalOf(b)
        /\ blk \in {"setup", "usability"} =>
             start = -1 /\ end = -1 /\ start' = -1 /\ end' = -1
        /\ (blk \in Blocks /\ step = "point") =>
             /\ start \in Now /\ end = -1
             /\ nstart[blk] = nend[blk] + 1
             /\ start' = start /\ end' = end
       ]_vars

C9_Witness ==
  /\ outer = 1
  /\ blk = "IsometryMatrix" /\ step = "start"
  /\ total_duration_transform = 2
  /\ total_duration_isometry = 1
  /\ total_duration_isometry_matrix = 0

\* C10: main always ends after exactly total_samples outer iterations, each
\* of which ran exactly sub_samples inner iterations for each of the three
\* representations, all of them composing the same two inputs.
C10_EndsAfterAllIterations ==
  /\ Terminated =>
       /\ outer = total_samples
       /\ \A b \in Blocks : nstart[b] = total_samples /\ nadded[b] = total_samples
  /\ (blk \in Blocks /\ step \in {"end", "add"}) => inner = sub_samples
  /\ (blk \in Blocks /\ step \in LoopSteps) => inner < sub_samples
  /\ (blk \in Blocks /\ step \in {"invert", "compose_inverse", "transform_point"}) =>
       composed = Product(blk)

====
